---- MODULE Spec2Model ----
(***************************************************************************)
(* Model of src/main.py: the video -> chunks -> audio -> transcript        *)
(* pipeline.                                                               *)
(*                                                                         *)
(* Times are integers in milliseconds.  Every time the model produces is   *)
(* a multiple of 125 ms (1/8 s), which is exactly representable in the     *)
(* binary floats main.py computes with, so integer arithmetic here gives   *)
(* the same comparisons and the same floor divisions as the program.       *)
(*                                                                         *)
(* A word is identified by its position in the stream of recognized words  *)
(* (1, 2, ...).  The text buffer of recognize_speech_from_audio is the     *)
(* sequence of its space separated tokens: `buffer += " " + word` appends  *)
(* one token, `buffer.split()` is the token sequence and `buffer.strip()`  *)
(* is non-empty exactly when there is at least one token (recognized       *)
(* words contain no white space).                                          *)
(***************************************************************************)
EXTENDS Integers, Sequences, FiniteSets, TLC

VARIABLES
    pc,             \* position of the single thread of control
    video_duration, \* split_video: int(video.duration), seconds
    chunk_duration, \* split_video: chunk_duration, seconds
    video_audio,    \* channel count and frame rate of the video's audio track
    split_pos,      \* split_video: next value of the range() loop variable
    chunk_paths,    \* split_video: chunk_paths, each chunk as [start, end]
    audio_paths,    \* extract_audio_from_chunks: audio_paths (the waveforms)
    audio_idx,      \* process_video_to_text: position of the for loop
    calls,          \* history: start_time and end time of every transcription call
    audio_path,     \* recognize_speech_from_audio: the waveform audio_path names
    in_audio,       \* history: the waveform the caller passed
    converted,      \* history: convert_audio_to_vosk_format was called
    wf,             \* recognize_speech_from_audio: the waveform opened at line 210
    start_time,     \* recognize_speech_from_audio: start_time
    current_time,   \* recognize_speech_from_audio: current_time
    frames_read,    \* frames of wf consumed by readframes so far
    buffer,         \* recognize_speech_from_audio: buffer, as its tokens
    file,           \* the transcript file: the lines written, in order
    emitted,        \* history: every recognized word, in decoder order
    results_left    \* finalized results the decoder may still emit

vars ==
    << pc, video_duration, chunk_duration, video_audio, split_pos, chunk_paths,
       audio_paths, audio_idx, calls, audio_path, in_audio, converted, wf,
       start_time, current_time, frames_read, buffer, file, emitted,
       results_left >>

split_vars == << video_duration, chunk_duration, video_audio, split_pos, chunk_paths >>
driver_vars == << audio_paths, audio_idx, calls >>
rec_vars ==
    << audio_path, in_audio, converted, wf, start_time, current_time,
       frames_read, buffer, file, emitted >>

(***************************************************************************)
(* Program constants.                                                      *)
(***************************************************************************)
BlockFrames == 4000
MaxBufferTokens == 10
FlushGapSeconds == 5
TargetFrameRate == 16000
ExtractSampleWidth == 2
DefaultStartTime == 0
SupportedRates == {8000, 16000, 32000}

(***************************************************************************)
(* Bounds of the model.                                                    *)
(***************************************************************************)
MaxBlocks == 11
MaxResults == 2
MaxVideoDuration == 12
MaxChunkDuration == 6
MaxDriverDuration == 2

NoAudio == [readable |-> FALSE, channels |-> 0, sampwidth |-> 0, framerate |-> 0, frames |-> 0]

Min(a, b) == IF a <= b THEN a ELSE b

(***************************************************************************)
(* split_video (lines 15-33).                                              *)
(***************************************************************************)

\* A fault of line 27: the end of a chunk is not clipped to the video's end.
ChunkEndUnclipped(start, length, duration) == start + length

\* Line 27: end_time = min(start_time + chunk_duration, video_duration).
ChunkEnd(start, length, duration) == Min(start + length, duration)

\* Lines 26-30: one iteration of `for start_time in range(0, video_duration,
\* chunk_duration)`.
SplitIter ==
    /\ pc = "split"
    /\ split_pos < video_duration
    /\ chunk_paths' = Append(chunk_paths,
            [start |-> split_pos,
             end |-> ChunkEnd(split_pos, chunk_duration, video_duration)])
    /\ split_pos' = split_pos + chunk_duration
    /\ UNCHANGED << pc, video_duration, chunk_duration, video_audio >>
    /\ UNCHANGED << driver_vars, rec_vars, results_left >>

\* Lines 26, 32-33: the range is exhausted and chunk_paths is returned.
SplitReturn ==
    /\ pc = "split"
    /\ split_pos >= video_duration
    /\ pc' = "extract"
    /\ UNCHANGED << split_vars, driver_vars, rec_vars, results_left >>

(***************************************************************************)
(* extract_audio_from_chunks (lines 37-54).                                *)
(***************************************************************************)

\* Lines 45-48: the audio track of one chunk, written with codec pcm_s16le.
ExtractedAudio(chunk) ==
    [readable |-> TRUE,
     channels |-> video_audio.channels,
     sampwidth |-> ExtractSampleWidth,
     framerate |-> video_audio.framerate,
     frames |-> (chunk.end - chunk.start) * video_audio.framerate]

\* Lines 246, 248: audio_paths is built, the driver's loop starts.
ExtractAudio ==
    /\ pc = "extract"
    /\ audio_paths' = [i \in 1..Len(chunk_paths) |-> ExtractedAudio(chunk_paths[i])]
    /\ audio_idx' = 1
    /\ pc' = "next_audio"
    /\ UNCHANGED << split_vars, calls, rec_vars, results_left >>

(***************************************************************************)
(* convert_audio_to_vosk_format (lines 160-183).                           *)
(***************************************************************************)

\* Lines 167-180: set_channels(1) and set_frame_rate(16000); the sample
\* width of the segment is left as it was read, and the export keeps it.
\* The resampled waveform has the same duration.
ConvertedAudio(a) ==
    [readable |-> TRUE,
     channels |-> 1,
     sampwidth |-> a.sampwidth,
     framerate |-> TargetFrameRate,
     frames |-> (a.frames * TargetFrameRate) \div a.framerate]

(***************************************************************************)
(* recognize_speech_from_audio (lines 186-241).                            *)
(***************************************************************************)

\* A fault of line 202: only the rate the normalizer produces is accepted.
HeaderValidTargetRateOnly(a) ==
    /\ a.readable
    /\ ~ ( \/ a.channels # 1
           \/ a.sampwidth # 2
           \/ a.framerate # TargetFrameRate )

\* Lines 200-204: wave.open succeeds and no ValueError is raised.
HeaderValid(a) ==
    /\ a.readable
    /\ ~ ( \/ a.channels # 1
           \/ a.sampwidth # 2
           \/ a.framerate \notin SupportedRates )

\* Lines 200-204: the header check of the waveform the caller passed.
Validate ==
    /\ pc = "validate"
    /\ pc' = IF HeaderValid(audio_path) THEN "open" ELSE "convert"
    /\ UNCHANGED << split_vars, driver_vars, rec_vars, results_left >>

\* Lines 204-206: the except branch.
Convert ==
    /\ pc = "convert"
    /\ audio_path' = ConvertedAudio(audio_path)
    /\ converted' = TRUE
    /\ pc' = "open"
    /\ UNCHANGED << split_vars, driver_vars, results_left >>
    /\ UNCHANGED << in_audio, wf, start_time, current_time, frames_read,
                    buffer, file, emitted >>

\* Lines 210-218: the waveform is opened, the clock and the buffer are set.
Open ==
    /\ pc = "open"
    /\ wf' = audio_path
    /\ current_time' = start_time
    /\ frames_read' = 0
    /\ buffer' = << >>
    /\ file' = << >>
    /\ emitted' = << >>
    /\ pc' = "read"
    /\ UNCHANGED << split_vars, driver_vars, results_left >>
    /\ UNCHANGED << audio_path, in_audio, converted, start_time >>

\* Lines 229, 239: int(t // 60).
Minutes(t) == t \div 60000

\* Lines 230, 239: int(t % 60).
Seconds(t) == (t % 60000) \div 1000

\* Line 228: word_start = word_info["start"] + current_time.
WordStart(offset, now) == offset + now

\* Line 231: the flush condition.
ShouldFlush(buf, word_start, now) ==
    \/ Len(buf) >= MaxBufferTokens
    \/ (word_start - now) >= FlushGapSeconds * 1000

\* A fault of lines 233-234: the word that triggers a flush is not kept.
BufferAfterLosingWord(buf, flush, word) ==
    IF flush THEN << >> ELSE Append(buf, word)

\* Lines 233-234: buffer = "" on a flush, then buffer += " " + word.
BufferAfter(buf, flush, word) ==
    Append(IF flush THEN << >> ELSE buf, word)

\* The in-chunk offset of the first word in the buffer; 0, the start of the
\* chunk, while nothing is buffered.
BufferStartOffset(buf, words) ==
    IF buf = << >> THEN 0 ELSE words[buf[1]].offset

RECURSIVE ProcessWords(_, _, _)
\* Lines 226-234: the for loop over result["result"].  st holds the buffer,
\* the file and the history of the words.
ProcessWords(offsets, now, st) ==
    IF offsets = << >> THEN st
    ELSE LET word == Len(st.emitted) + 1
             word_start == WordStart(Head(offsets), now)
             flush == ShouldFlush(st.buffer, word_start, now)
             line == [minutes |-> Minutes(word_start),
                      seconds |-> Seconds(word_start),
                      text |-> st.buffer,
                      eos |-> FALSE]
             info == [offset |-> Head(offsets),
                      word_start |-> word_start,
                      flushed |-> flush,
                      tokens_before |-> Len(st.buffer),
                      ref_offset |-> BufferStartOffset(st.buffer, st.emitted)]
         IN ProcessWords(Tail(offsets), now,
                [buffer |-> BufferAfter(st.buffer, flush, word),
                 file |-> IF flush THEN Append(st.file, line) ELSE st.file,
                 emitted |-> Append(st.emitted, info)])

\* The offset of the last recognized word.
LastOffset == IF emitted = << >> THEN 0 ELSE emitted[Len(emitted)].offset

\* The audio time of the chunk fed to the decoder once n more frames are read.
AudioTime(n) == ((frames_read + n) * 1000) \div wf.framerate

\* The numbers of words a finalized result holds.
WordCounts == {1, 2, MaxBufferTokens + 1, MaxBufferTokens + 2}

\* The distances between consecutive words of one result, milliseconds.
WordSpacings == {125, 2500}

\* The offsets of the first word of a result, milliseconds.
FirstOffsets == {g * 2500 : g \in 0..MaxBlocks}

\* The word lists json.loads(recognizer.Result())["result"] can hold (lines
\* 224-225): none, or words with non-decreasing start offsets that lie in
\* the audio fed so far and after the words of the earlier results.
ResultWords(consumed) ==
    {<< >>} \cup
    { [i \in 1..k |-> f + (i - 1) * s] :
        <<k, f, s>> \in { t \in WordCounts \X FirstOffsets \X WordSpacings :
                            /\ t[2] >= LastOffset
                            /\ t[2] + (t[1] - 1) * t[3] <= consumed } }

\* Lines 219-235: one iteration of the while loop that reads a block.
ReadBlock ==
    /\ pc = "read"
    /\ LET n == Min(BlockFrames, wf.frames - frames_read)
           data_len == n * wf.sampwidth * wf.channels
       IN /\ n > 0
          /\ \/ /\ UNCHANGED << buffer, file, emitted, results_left >>
             \/ /\ results_left > 0
                /\ results_left' = results_left - 1
                /\ \E words \in ResultWords(AudioTime(n)) :
                     LET st == ProcessWords(words, current_time,
                                   [buffer |-> buffer, file |-> file,
                                    emitted |-> emitted])
                     IN /\ buffer' = st.buffer
                        /\ file' = st.file
                        /\ emitted' = st.emitted
          /\ current_time' = current_time + (data_len * 1000) \div wf.framerate
          /\ frames_read' = frames_read + n
    /\ UNCHANGED << pc, split_vars, driver_vars >>
    /\ UNCHANGED << audio_path, in_audio, converted, wf, start_time >>

\* Lines 221-222, 238-241: the waveform is exhausted; what is left in the
\* buffer is written and the function returns.
EndOfStream ==
    /\ pc = "read"
    /\ wf.frames - frames_read = 0
    /\ file' = IF buffer # << >>
               THEN Append(file, [minutes |-> Minutes(current_time),
                                  seconds |-> Seconds(current_time),
                                  text |-> buffer,
                                  eos |-> TRUE])
               ELSE file
    /\ calls' = Append(calls, [start_time |-> start_time, end_time |-> current_time])
    /\ pc' = "return"
    /\ UNCHANGED << split_vars, audio_paths, audio_idx, results_left >>
    /\ UNCHANGED << audio_path, in_audio, converted, wf, start_time,
                    current_time, frames_read, buffer, emitted >>

(***************************************************************************)
(* process_video_to_text (lines 244-255).                                  *)
(***************************************************************************)

\* Line 250: the call passes no start_time, so the parameter takes its
\* default (line 186).
CallRecognize ==
    /\ pc = "next_audio"
    /\ audio_idx <= Len(audio_paths)
    /\ audio_path' = audio_paths[audio_idx]
    /\ in_audio' = audio_paths[audio_idx]
    /\ converted' = FALSE
    /\ start_time' = DefaultStartTime
    /\ pc' = "validate"
    /\ UNCHANGED << split_vars, driver_vars, results_left >>
    /\ UNCHANGED << wf, current_time, frames_read, buffer, file, emitted >>

\* Lines 251-252, 249: the returned value is appended, the loop goes on.
AfterRecognize ==
    /\ pc = "return"
    /\ audio_idx' = audio_idx + 1
    /\ pc' = "next_audio"
    /\ UNCHANGED << split_vars, audio_paths, calls, rec_vars, results_left >>

\* Lines 254-255: every waveform is transcribed.
DriverReturn ==
    /\ pc = "next_audio"
    /\ audio_idx > Len(audio_paths)
    /\ pc' = "done"
    /\ UNCHANGED << split_vars, driver_vars, rec_vars, results_left >>

(***************************************************************************)
(* Initial states and specifications.                                      *)
(***************************************************************************)

\* A readable waveform file.
Waveform(ch, sw, rate, n) ==
    [readable |-> TRUE, channels |-> ch, sampwidth |-> sw, framerate |-> rate,
     frames |-> n]

\* No video has been split.
NoVideo ==
    /\ video_duration = 0
    /\ chunk_duration = 1
    /\ video_audio = [channels |-> 1, framerate |-> TargetFrameRate]
    /\ split_pos = 0
    /\ chunk_paths = << >>

\* Nothing has been extracted or transcribed.
Idle ==
    /\ audio_paths = << >>
    /\ audio_idx = 1
    /\ calls = << >>
    /\ converted = FALSE
    /\ wf = NoAudio
    /\ current_time = 0
    /\ frames_read = 0
    /\ buffer = << >>
    /\ file = << >>
    /\ emitted = << >>
    /\ results_left = MaxResults

\* The start_time values a caller passes, milliseconds.
StartTimes == {0, 58000}

\* The lengths of the transcribed waveforms, in frames.
AudioFrames ==
    {0, BlockFrames \div 2, MaxBlocks * BlockFrames - BlockFrames \div 2,
     MaxBlocks * BlockFrames}

\* The waveforms transcribed: mono 16-bit at each supported rate, and 16 kHz
\* stereo 16-bit.
Audios ==
    { Waveform(1, 2, rate, n) : rate \in SupportedRates, n \in AudioFrames } \cup
    { Waveform(2, 2, 16000, n) : n \in AudioFrames }

\* Line 186: recognize_speech_from_audio is entered, with a model path that
\* exists (lines 197-198).
Init ==
    /\ pc = "validate"
    /\ audio_path \in Audios
    /\ in_audio = audio_path
    /\ start_time \in StartTimes
    /\ NoVideo
    /\ Idle

Next == Validate \/ Convert \/ Open \/ ReadBlock \/ EndOfStream

\* One call of recognize_speech_from_audio.
Spec == Init /\ [][Next]_vars

\* Half a second of audio, or none, in every header layout.  For a file that
\* wave.open rejects (readable = FALSE) the fields are what
\* AudioSegment.from_file decodes from it.
FormatAudios ==
    { [readable |-> r, channels |-> ch, sampwidth |-> sw, framerate |-> rate,
       frames |-> n * (rate \div 2)] :
        r \in BOOLEAN, ch \in {1, 2}, sw \in {1, 2, 4},
        rate \in {8000, 16000, 32000, 48000}, n \in {0, 1} }

InitFormat ==
    /\ pc = "validate"
    /\ audio_path \in FormatAudios
    /\ in_audio = audio_path
    /\ start_time \in StartTimes
    /\ NoVideo
    /\ Idle

\* One call of recognize_speech_from_audio on a waveform of any layout.
SpecFormat == InitFormat /\ [][Next]_vars

\* Line 15: split_video is entered; line 24.
InitSplit ==
    /\ pc = "split"
    /\ video_duration \in 0..MaxVideoDuration
    /\ chunk_duration \in 1..MaxChunkDuration
    /\ video_audio = [channels |-> 1, framerate |-> TargetFrameRate]
    /\ split_pos = 0
    /\ chunk_paths = << >>
    /\ audio_path = NoAudio
    /\ in_audio = NoAudio
    /\ start_time = DefaultStartTime
    /\ Idle

NextSplit == SplitIter \/ SplitReturn

\* One call of split_video.
SpecSplit == InitSplit /\ [][NextSplit]_vars

\* Line 244: process_video_to_text is entered.
InitDriver ==
    /\ pc = "split"
    /\ video_duration \in 0..MaxDriverDuration
    /\ chunk_duration \in 1..MaxDriverDuration
    /\ video_audio \in { [channels |-> ch, framerate |-> TargetFrameRate] : ch \in {1, 2} }
    /\ split_pos = 0
    /\ chunk_paths = << >>
    /\ audio_path = NoAudio
    /\ in_audio = NoAudio
    /\ start_time = DefaultStartTime
    /\ Idle

NextDriver ==
    \/ SplitIter \/ SplitReturn \/ ExtractAudio
    \/ CallRecognize \/ AfterRecognize \/ DriverReturn
    \/ Validate \/ Convert \/ Open \/ ReadBlock \/ EndOfStream

\* One run of process_video_to_text.
SpecDriver == InitDriver /\ [][NextDriver]_vars

(***************************************************************************)
(* Properties.                                                             *)
(***************************************************************************)

CeilDiv(a, b) == (a + b - 1) \div b

RECURSIVE FileWords(_)
\* The words of the transcript, read line by line.
FileWords(lines) ==
    IF lines = << >> THEN << >> ELSE Head(lines).text \o FileWords(Tail(lines))

\* The time a line is tagged with, in seconds.
Stamp(line) == line.minutes * 60 + line.seconds

\* The lines written by the flush at the end of the stream.
EosLines == { i \in 1..Len(file) : file[i].eos }

\* C1: when split_video returns, it has produced ceil(D/L) chunks; the chunks
\* are non-empty and contiguous, start at 0 and end at D; every chunk is at
\* most L long and every chunk but the last is exactly L long.
SplitCoversVideo ==
    pc = "extract" =>
        LET n == Len(chunk_paths)
            len(i) == chunk_paths[i].end - chunk_paths[i].start
        IN /\ n = CeilDiv(video_duration, chunk_duration)
           /\ \A i \in 1..n : len(i) > 0 /\ len(i) <= chunk_duration
           /\ \A i \in 1..(n - 1) :
                /\ len(i) = chunk_duration
                /\ chunk_paths[i].end = chunk_paths[i + 1].start
           /\ n > 0 => chunk_paths[1].start = 0 /\ chunk_paths[n].end = video_duration

\* C1: split_video has returned several chunks, the last one shorter.
SplitWithShortLastChunk ==
    /\ pc = "extract"
    /\ Len(chunk_paths) >= 3
    /\ chunk_paths[Len(chunk_paths)].end - chunk_paths[Len(chunk_paths)].start
         < chunk_duration

\* C2: a word causes a flush exactly when the buffer holds at least 10
\* tokens or the word is at least 5 seconds after the time the buffer was
\* started (the first buffered word; the start of the chunk for an empty
\* buffer).
FlushOnlyWhenFullOrAfterGap ==
    \A i \in 1..Len(emitted) :
        emitted[i].flushed <=>
            \/ emitted[i].tokens_before >= 10
            \/ emitted[i].offset - emitted[i].ref_offset >= 5 * 1000

\* C3: a line flushed inside the loop is tagged with the minute and second
\* of the absolute time of the first word in it.
LineTaggedWithFirstWord ==
    \A i \in 1..Len(file) :
        (~ file[i].eos /\ file[i].text # << >>) =>
            LET t == emitted[file[i].text[1]].word_start
            IN file[i].minutes = Minutes(t) /\ file[i].seconds = Seconds(t)

\* C4: the absolute time used for a word is its in-chunk offset plus
\* start_time, whatever block its result is emitted in.
WordTimeIsOffsetPlusStart ==
    \A i \in 1..Len(emitted) :
        emitted[i].word_start = emitted[i].offset + start_time

\* C5: the timestamps of the lines of a transcript, in file order, never
\* decrease.
StampsNonDecreasing ==
    \A i \in 1..(Len(file) - 1) : Stamp(file[i]) <= Stamp(file[i + 1])

\* C6: every call of recognize_speech_from_audio after the first gets as
\* start_time the time reached at the end of the previous chunk.
ClockThreadedAcrossChunks ==
    (pc = "validate" /\ calls # << >>) =>
        start_time = calls[Len(calls)].end_time

\* C7: the waveform that is opened and decoded is mono, 16-bit and has a
\* frame rate of 8000, 16000 or 32000.
DecodedAudioIsVoskFormat ==
    pc \in {"read", "return"} =>
        /\ wf.channels = 1
        /\ wf.sampwidth = 2
        /\ wf.framerate \in {8000, 16000, 32000}

\* C8: convert_audio_to_vosk_format is called only for a waveform that fails
\* the header check; a waveform that passes is never converted and is the
\* one decoded.
ConvertOnlyOnBadHeader ==
    LET fails == \/ ~ in_audio.readable
                 \/ in_audio.channels # 1
                 \/ in_audio.sampwidth # 2
                 \/ in_audio.framerate \notin {8000, 16000, 32000}
    IN /\ (converted \/ pc = "convert") => fails
       /\ (~ fails /\ pc \in {"read", "return"}) => wf = in_audio

\* C8: a waveform that passes the check has been decoded as it was.
ValidAudioDecodedAsIs ==
    /\ pc = "return"
    /\ ~ converted
    /\ wf = in_audio
    /\ frames_read > 0
    /\ emitted # << >>

\* C9: at the end of the stream one more line is written exactly when the
\* buffer is not empty; it holds the whole buffer and is tagged with
\* start_time plus the duration of the audio read.
FinalLineAtAudioEnd ==
    pc = "return" =>
        LET audio_end == start_time + (frames_read * 1000) \div wf.framerate
        IN /\ (EosLines # {}) <=> (buffer # << >>)
           /\ \A i \in EosLines :
                /\ i = Len(file)
                /\ file[i].text = buffer
                /\ file[i].minutes = Minutes(audio_end)
                /\ file[i].seconds = Seconds(audio_end)

\* C10: the words of the transcript, read line by line, are the recognized
\* words in decoder order: while blocks are read, the lines followed by the
\* buffer; once the function returns, the lines alone.
TranscriptKeepsWords ==
    LET words == [i \in 1..Len(emitted) |-> i]
    IN /\ pc = "read" => FileWords(file) \o buffer = words
       /\ pc = "return" => FileWords(file) = words

\* C10: a transcript with lines flushed in the loop and at the end.
TranscriptWithSeveralLines ==
    /\ pc = "return"
    /\ Len(file) >= 3
    /\ EosLines # {}
    /\ \E i \in 1..Len(file) : ~ file[i].eos /\ Len(file[i].text) >= MaxBufferTokens
    /\ \E i \in 1..Len(file) : ~ file[i].eos /\ Len(file[i].text) = 1

====
